---- MODULE Spec2Model ----
(***************************************************************************)
(* Model of seesaw/externalprocess.py: the ExternalProcess task.           *)
(*                                                                         *)
(* An item is enqueued, a child process is spawned on a pty, the ioloop    *)
(* delivers readiness notifications to on_subprocess_stdout, wait_for_end  *)
(* polls the exit status, and handle_process_result / handle_process_error *)
(* classify the exit code and complete, retry or fail the item.            *)
(*                                                                         *)
(* Python's None is the empty tuple and a value x that may be None is <<x>>.*)
(***************************************************************************)
EXTENDS Integers, Sequences, FiniteSets, TLC

\* ---------------------------------------------------------------- bounds
MaxMaxTries == 3      \* largest finite max_tries that is configured
MaxStarts == 2        \* cap on process() calls per item when max_tries is unlimited
MaxChunks == 1        \* output chunks one child process writes
MaxPriorTries == 2    \* largest "tries" value an item carries before enqueue

Items == {"a", "b"}
ExitCodes == {-1, 0, 1}

None == <<>>
Some(x) == <<x>>

\* ----------------------------------------------------------------- state
VARIABLES
  max_tries,            \* task descriptor: None or Some(n)
  accept_on_exit_code,  \* task descriptor: set of exit codes
  retry_on_exit_code,   \* task descriptor: None or Some(set of exit codes)
  on_error,             \* truth value of self.on_error
  pipeline_items,       \* the items the pipeline hands to this task
  tries,                \* item["tries"]; 0 when the key is absent
  log,                  \* item.log_output calls, in order
  runs,                 \* run attempts that are still referenced
  retry_timers,         \* pending add_timeout(retry_delay, process) per item
  start_items,          \* start_item calls per item
  started,              \* process() calls per item
  exits,                \* exit codes seen by wait_for_end, per item, in order
  completed,            \* complete_item calls per item
  failed,               \* fail_item calls per item
  errors,               \* item.log_error calls per item
  retries,              \* retry timers ever scheduled per item
  raised                \* where an exception of process() escaped to

config == <<max_tries, accept_on_exit_code, retry_on_exit_code, on_error, pipeline_items>>
history == <<start_items, started, exits, completed, failed, errors, retries, raised>>
vars == <<config, tries, log, runs, retry_timers, history>>

MaxTriesValues == {None} \cup {Some(n) : n \in 1..MaxMaxTries}
RetryOnValues == {None} \cup {Some(s) : s \in SUBSET ExitCodes}
OnErrorValues == BOOLEAN

\* ExternalProcess.__init__ and the state of the items before enqueue
InitItems(its) ==
  /\ pipeline_items = its
  /\ max_tries \in MaxTriesValues
  /\ accept_on_exit_code \in SUBSET ExitCodes
  /\ retry_on_exit_code \in RetryOnValues
  /\ on_error \in OnErrorValues
  /\ tries \in [Items -> 0..MaxPriorTries]
  /\ \A i \in Items \ its : tries[i] = 0
  /\ log = [i \in Items |-> <<>>]
  /\ runs = {}
  /\ retry_timers = [i \in Items |-> 0]
  /\ start_items = [i \in Items |-> 0]
  /\ started = [i \in Items |-> 0]
  /\ exits = [i \in Items |-> <<>>]
  /\ completed = [i \in Items |-> 0]
  /\ failed = [i \in Items |-> 0]
  /\ errors = [i \in Items |-> 0]
  /\ retries = [i \in Items |-> 0]
  /\ raised = [i \in Items |-> "none"]

Init == InitItems({"a"})

\* --------------------------------------------------------- run attempts
\* The objects process() creates: the Popen handle p, the master file m and
\* the handler registered on the ioloop.
NewRun(i, n) ==
  [item |-> i, n |-> n,
   exit_status |-> None,   \* the child's wait status, None while it runs
   hup |-> FALSE,          \* every slave descriptor of the pty is closed
   written |-> 0,          \* chunks the child has written
   buf |-> <<>>,           \* chunks written and not yet read from the master
   m_closed |-> FALSE,     \* m.closed
   handler |-> FALSE,      \* the ioloop has a handler for master_fd
   polls |-> 0]            \* pending add_timeout(250ms, wait_for_end)

\* A run attempt exists while its process runs or the ioloop still refers
\* to it through a handler or a timeout.
Live(r) == r.exit_status = None \/ r.handler \/ r.polls > 0

Replace(r, r2) == {x \in (runs \ {r}) \cup {r2} : Live(x)}

\* pipe.poll(): the returncode, None while the child runs
Poll(r) == r.exit_status

\* mutant: the callbacks take the item from a slot shared by the task
ItemOfTask(r) == CHOOSE i \in pipeline_items : start_items[i] = 1

\* the item that functools.partial bound to the callbacks of a run attempt
ItemOf(r) == r.item

\* ------------------------------------------------------------- process
\* mutant: the exception of subprocess.Popen is caught and dropped
processSwallows(i, spawn_ok, caller) ==
  /\ started' = [started EXCEPT ![i] = @ + 1]
  /\ raised' = raised
  /\ IF spawn_ok
       THEN runs' = runs \cup {[NewRun(i, started[i] + 1) EXCEPT !.handler = TRUE]}
       ELSE runs' = runs

\* process(item): spawn, make master non-blocking, add_handler.
process(i, spawn_ok, caller) ==
  /\ started' = [started EXCEPT ![i] = @ + 1]
  /\ IF spawn_ok
       THEN /\ runs' = runs \cup {[NewRun(i, started[i] + 1) EXCEPT !.handler = TRUE]}
            /\ raised' = raised
       ELSE /\ runs' = runs
            /\ raised' = [raised EXCEPT ![i] = caller]

Enqueue(i, spawn_ok) ==
  /\ i \in pipeline_items
  /\ start_items[i] = 0
  /\ start_items' = [start_items EXCEPT ![i] = @ + 1]
  /\ log' = [log EXCEPT ![i] = Append(@, <<"Starting">>)]
  /\ tries' = [tries EXCEPT ![i] = 1]
  /\ process(i, spawn_ok, "enqueue")
  /\ UNCHANGED <<config, retry_timers, exits, completed, failed, errors, retries>>

\* the retry timer fires: functools.partial(self.process, item)
ProcessTimeout(i, spawn_ok) ==
  /\ retry_timers[i] > 0
  /\ max_tries = None => started[i] < MaxStarts
  /\ retry_timers' = [retry_timers EXCEPT ![i] = @ - 1]
  /\ process(i, spawn_ok, "timeout")
  /\ UNCHANGED <<config, tries, log, start_items, exits, completed, failed, errors, retries>>

\* ------------------------------------------------------ the child process
\* the child writes its next chunk to stdout or stderr, chunks are numbered
ChildWritesUpTo(r, limit) ==
  /\ r \in runs
  /\ r.exit_status = None /\ ~r.hup
  /\ r.written < limit
  /\ runs' = Replace(r, [r EXCEPT !.written = @ + 1, !.buf = Append(@, r.written + 1)])
  /\ UNCHANGED <<config, tries, log, retry_timers, history>>

ChildWrites(r) == ChildWritesUpTo(r, MaxChunks)

\* the child closes stdout and stderr before it exits
ChildClosesOutput(r) ==
  /\ r \in runs
  /\ r.exit_status = None /\ ~r.hup
  /\ runs' = Replace(r, [r EXCEPT !.hup = TRUE])
  /\ UNCHANGED <<config, tries, log, retry_timers, history>>

ChildExits(r, code) ==
  /\ r \in runs
  /\ r.exit_status = None
  /\ runs' = Replace(r, [r EXCEPT !.exit_status = Some(code), !.hup = TRUE])
  /\ UNCHANGED <<config, tries, log, retry_timers, history>>

\* --------------------------------------------------------- classification
\* mutant: the accept set is ignored and only exit code 0 is a success
AcceptedZeroOnly(code) == code = 0

Accepted(code) == code \in accept_on_exit_code

\* mutant: an empty retry_on_exit_code is taken for an unset one
RetryPermittedTruthy(t, code) ==
  /\ (max_tries = None \/ t < max_tries[1])
  /\ (retry_on_exit_code = None \/ retry_on_exit_code[1] = {}
        \/ code \in retry_on_exit_code[1])

\* mutant: "or" in place of "and" between the two tests
RetryPermittedOr(t, code) ==
  \/ (max_tries = None \/ t < max_tries[1])
  \/ (retry_on_exit_code = None \/ code \in retry_on_exit_code[1])

\* the condition of handle_process_error, t being item["tries"] as read there
RetryPermitted(t, code) ==
  /\ (max_tries = None \/ t < max_tries[1])
  /\ (retry_on_exit_code = None \/ code \in retry_on_exit_code[1])

\* mutant: "if self.on_error" in place of "elif self.on_error"
FailReportedNoElif(permitted) == on_error

\* the guard of the elif branch, reached when the retry is not permitted
FailReported(permitted) == ~permitted /\ on_error

\* lg: the item's log as left by the caller
handle_process_result(code, i, lg) ==
  /\ log' = [log EXCEPT ![i] = Append(lg, <<"Finished">>)]
  /\ completed' = [completed EXCEPT ![i] = @ + 1]
  /\ UNCHANGED <<tries, retry_timers, failed, errors, retries>>

\* mutant: tries is kept as a countdown
TriesCountedDown(t) == t - 1

\* item["tries"] += 1
TriesIncremented(t) == t + 1

handle_process_error(code, i, lg) ==
  LET t == TriesIncremented(tries[i])
      lg1 == Append(lg, <<"Process returned", code>>)
      retry == RetryPermitted(t, code)
      fail == FailReported(retry)
      lg2 == IF retry THEN Append(lg1, <<"Retrying">>) ELSE lg1
      lg3 == IF fail THEN Append(lg2, <<"Failed">>) ELSE lg2
  IN /\ tries' = [tries EXCEPT ![i] = t]
     /\ errors' = [errors EXCEPT ![i] = @ + 1]
     /\ completed' = completed
     /\ log' = [log EXCEPT ![i] = lg3]
     /\ retry_timers' = [retry_timers EXCEPT ![i] = IF retry THEN @ + 1 ELSE @]
     /\ retries' = [retries EXCEPT ![i] = IF retry THEN @ + 1 ELSE @]
     /\ failed' = [failed EXCEPT ![i] = IF fail THEN @ + 1 ELSE @]

\* mutant: the else branch of wait_for_end schedules nothing
NotRepolled(r1) == r1

\* ioloop.add_timeout(250 ms, wait_for_end)
Repolled(r1) == [r1 EXCEPT !.polls = @ + 1]

\* r: the run attempt before the call, r1: as left by the caller
wait_for_end(r, r1, lg) ==
  LET i == ItemOf(r) IN
  IF Poll(r1) # None
    THEN /\ exits' = [exits EXCEPT ![i] = Append(@, Poll(r1)[1])]
         /\ runs' = Replace(r, r1)
         /\ IF Accepted(Poll(r1)[1])
              THEN handle_process_result(Poll(r1)[1], i, lg)
              ELSE handle_process_error(Poll(r1)[1], i, lg)
    ELSE /\ runs' = Replace(r, Repolled(r1))
         /\ log' = [log EXCEPT ![i] = lg]
         /\ UNCHANGED <<tries, retry_timers, exits, completed, failed, errors, retries>>

\* mutant: ioloop.remove_handler(fd) is left out
HangUpKeepsHandler(r) == [r EXCEPT !.m_closed = TRUE]

\* the hang-up branch of on_subprocess_stdout, before wait_for_end
HangUp(r) == [r EXCEPT !.m_closed = TRUE, !.handler = FALSE]

\* mutant: the hang-up is handled in place of the read, not after it
ReadableUnlessHangUp(r, epollin) == ~r.m_closed /\ epollin /\ ~r.hup

\* the guard of the read
Readable(r, epollin) == ~r.m_closed /\ epollin

\* mutant: one chunk is read per call, as m.readline() would
ReadOneChunk(r) == [data |-> <<Head(r.buf)>>, rest |-> Tail(r.buf)]

\* m.read() on the non-blocking master: everything that is buffered
Read(r) == [data |-> r.buf, rest |-> <<>>]

on_subprocess_stdout(r, epollin, epollhup) ==
  LET i == ItemOf(r)
      reads == Readable(r, epollin)
      r1 == IF reads THEN [r EXCEPT !.buf = Read(r).rest] ELSE r
      lg == IF reads THEN Append(log[i], <<"output", r.n, Read(r).data>>) ELSE log[i]
  IN IF epollhup
       THEN wait_for_end(r, HangUp(r1), lg)
       ELSE /\ runs' = Replace(r, r1)
            /\ log' = [log EXCEPT ![i] = lg]
            /\ UNCHANGED <<tries, retry_timers, exits, completed, failed, errors, retries>>

\* the ioloop polls master_fd (level triggered) and calls the handler
Notify(r) ==
  /\ r \in runs
  /\ r.handler
  /\ r.buf # <<>> \/ r.hup
  /\ on_subprocess_stdout(r, r.buf # <<>>, r.hup)
  /\ UNCHANGED <<config, start_items, started, raised>>

\* the 250 ms timer fires: functools.partial(self.wait_for_end, ...)
WaitForEndTimeout(r) ==
  /\ r \in runs
  /\ r.polls > 0
  /\ wait_for_end(r, [r EXCEPT !.polls = @ - 1], log[ItemOf(r)])
  /\ UNCHANGED <<config, start_items, started, raised>>

Next ==
  \/ \E i \in Items, ok \in BOOLEAN : Enqueue(i, ok)
  \/ \E i \in Items, ok \in BOOLEAN : ProcessTimeout(i, ok)
  \/ \E r \in runs : ChildWrites(r)
  \/ \E r \in runs : ChildClosesOutput(r)
  \/ \E r \in runs, code \in ExitCodes : ChildExits(r, code)
  \/ \E r \in runs : Notify(r)
  \/ \E r \in runs : WaitForEndTimeout(r)

Spec == Init /\ [][Next]_vars


\* ------------------------------------------------ two items on one ioloop
InitTwo ==
  /\ InitItems({"a", "b"})
  /\ max_tries \in {Some(1), Some(3)}
  /\ accept_on_exit_code = {0}
  /\ retry_on_exit_code = None
  /\ tries = [i \in Items |-> 0]

SpecTwo == InitTwo /\ [][Next]_vars

\* ------------------------------------------- notification after the close
\* on_subprocess_stdout is called for a run attempt whose master file is
\* closed already, the exit status of the attempt not being classified yet.
StaleNotify(r, epollin, epollhup) ==
  /\ r \in runs
  /\ r.m_closed
  /\ r.polls = 1
  /\ Len(exits[r.item]) < started[r.item]
  /\ epollin \/ epollhup
  /\ on_subprocess_stdout(r, epollin, epollhup)
  /\ UNCHANGED <<config, start_items, started, raised>>

InitStale ==
  /\ InitItems({"a"})
  /\ max_tries \in {Some(1), Some(3)}
  /\ accept_on_exit_code = {0}
  /\ retry_on_exit_code = None
  /\ on_error = TRUE
  /\ tries["a"] = 0

NextStale ==
  \/ Next
  \/ \E r \in runs, epollin \in BOOLEAN, epollhup \in BOOLEAN :
       StaleNotify(r, epollin, epollhup)

SpecStale == InitStale /\ [][NextStale]_vars


\* --------------------------------------------------- a more talkative child
InitOutput ==
  /\ InitItems({"a"})
  /\ max_tries \in {Some(1), Some(3)}
  /\ accept_on_exit_code = {0}
  /\ retry_on_exit_code = None
  /\ tries["a"] = 0

NextOutput ==
  \/ \E i \in Items, ok \in BOOLEAN : Enqueue(i, ok)
  \/ \E i \in Items, ok \in BOOLEAN : ProcessTimeout(i, ok)
  \/ \E r \in runs : ChildWritesUpTo(r, MaxChunks + 1)
  \/ \E r \in runs : ChildClosesOutput(r)
  \/ \E r \in runs, code \in ExitCodes : ChildExits(r, code)
  \/ \E r \in runs : Notify(r)
  \/ \E r \in runs : WaitForEndTimeout(r)

SpecOutput == InitOutput /\ [][NextOutput]_vars

\* ------------------------------------------------------ a failing m.read()
\* The ioloop calls the handler and m.read() raises an error other than
\* would-block. Nothing catches it: log_output and the hang-up branch are
\* skipped and the exception leaves on_subprocess_stdout. The data that was
\* buffered is lost with the failed read or stays in the buffer.
NotifyReadError(r, lost) ==
  /\ r \in runs
  /\ r.handler
  /\ Readable(r, r.buf # <<>>)
  /\ runs' = Replace(r, [r EXCEPT !.buf = IF lost THEN <<>> ELSE @])
  /\ raised' = [raised EXCEPT ![r.item] = "on_subprocess_stdout"]
  /\ UNCHANGED <<config, tries, log, retry_timers, start_items, started,
                 exits, completed, failed, errors, retries>>

NextAnomaly ==
  \/ Next
  \/ \E r \in runs, lost \in BOOLEAN : NotifyReadError(r, lost)

SpecAnomaly == InitOutput /\ [][NextAnomaly]_vars

\* ------------------------------------------------- the ioloop keeps running
\* Every child exits at some time, the ioloop delivers the notifications of
\* a registered handler and fires the timeouts that are due.
InitLive ==
  /\ InitItems({"a"})
  /\ max_tries \in {Some(1), Some(3)}
  /\ accept_on_exit_code = {0}
  /\ retry_on_exit_code = None
  /\ tries["a"] = 0

Fairness ==
  /\ WF_vars(\E r \in runs, code \in ExitCodes : ChildExits(r, code))
  /\ WF_vars(\E r \in runs : Notify(r))
  /\ WF_vars(\E r \in runs : WaitForEndTimeout(r))
  /\ WF_vars(\E i \in Items, ok \in BOOLEAN : ProcessTimeout(i, ok))

SpecLive == InitLive /\ [][Next]_vars /\ Fairness

\* ------------------------------------------------------------ properties
RunsOf(i) == {r \in runs : r.item = i}

IsPrefix(s, t) == Len(s) <= Len(t) /\ \A k \in 1..Len(s) : s[k] = t[k]

\* handle_process_error ran for item i in this step
Erred(i) == errors'[i] = errors[i] + 1

\* an exit code of item i was handed to classification in this step
Classified(i) == Len(exits'[i]) = Len(exits[i]) + 1

\* C1: per enqueued item at most one terminal outcome is reported:
\* complete_item and fail_item together are called at most once.
C1_OneTerminalOutcome ==
  \A i \in Items : completed[i] + failed[i] <= 1

C1_Witness ==
  \E i \in Items : failed[i] = 1 /\ retries[i] >= 1 /\ Len(exits[i]) >= 2

\* C2: an exit code in accept_on_exit_code yields one complete_item and
\* nothing else: tries is kept, no retry timer is scheduled, log_error and
\* fail_item are not called.
C2_AcceptedExitCompletes ==
  [][\A i \in Items :
       (Classified(i) /\ exits'[i][Len(exits'[i])] \in accept_on_exit_code)
         => /\ completed[i] = 0 /\ completed'[i] = 1
            /\ tries'[i] = tries[i]
            /\ retries'[i] = retries[i]
            /\ retry_timers'[i] = 0
            /\ errors'[i] = errors[i]
            /\ failed'[i] = 0]_vars

C2_Witness ==
  \E i \in Items :
    /\ completed[i] = 1
    /\ Len(exits[i]) >= 2
    /\ exits[i][Len(exits[i])] \in accept_on_exit_code
    /\ exits[i][Len(exits[i])] # 0

\* C3: after an unaccepted exit a retry is scheduled iff
\* (max_tries is unlimited or tries < max_tries) and (retry_on_exit_code is
\* unset or holds the exit code), tries being the number of process starts
\* attempted so far.
C3_RetryIffPermitted ==
  [][\A i \in Items :
       Erred(i) =>
         ((retries'[i] = retries[i] + 1)
            <=> /\ (max_tries = None \/ started[i] < max_tries[1])
                /\ (retry_on_exit_code = None
                      \/ exits'[i][Len(exits'[i])] \in retry_on_exit_code[1]))]_vars

\* C4: with retry_on_exit_code unset and a finite max_tries, when every
\* attempt exits with an unaccepted code, tries is N once the Nth attempt is
\* classified, a retry follows while tries < max_tries and the item fails
\* only with tries = max_tries.
C4_RetryUntilMaxTries ==
  \A i \in Items :
    (/\ retry_on_exit_code = None /\ max_tries # None
     /\ raised[i] = "none"
     /\ exits[i] # <<>>
     /\ \A k \in 1..Len(exits[i]) : exits[i][k] \notin accept_on_exit_code
     /\ started[i] = Len(exits[i]))
      => /\ tries[i] = Len(exits[i])
         /\ (tries[i] < max_tries[1] => failed[i] = 0 /\ retry_timers[i] = 1)
         /\ (failed[i] > 0 => tries[i] = max_tries[1])

\* C5: from enqueue on, tries is the number of process starts attempted so
\* far, a retry that is scheduled and not yet started counting as attempted.
C5_TriesIsStarts ==
  \A i \in Items :
    start_items[i] = 1 => tries[i] = started[i] + retry_timers[i]

\* C6: max_tries = 3, accept_on_exit_code = [0], retry_on_exit_code unset and
\* exits 1, 1, 0: three attempts run, the item completes with tries = 3.
C6_Scenario110 ==
  \A i \in Items :
    (/\ max_tries = Some(3) /\ accept_on_exit_code = {0}
     /\ retry_on_exit_code = None
     /\ raised[i] = "none"
     /\ IsPrefix(exits[i], <<1, 1, 0>>))
      => /\ failed[i] = 0
         /\ (exits[i] = <<1, 1>> => retry_timers[i] = 1 \/ started[i] = 3)
         /\ (exits[i] = <<1, 1, 0>>
               => completed[i] = 1 /\ tries[i] = 3 /\ started[i] = 3)

\* C7: max_tries = 2 and exits 1, 1: two attempts run, the item fails with
\* tries = 2 and no retry timer is scheduled after the second exit.
C7_Scenario11 ==
  \A i \in Items :
    (/\ max_tries = Some(2) /\ accept_on_exit_code = {0}
     /\ retry_on_exit_code = None
     /\ raised[i] = "none"
     /\ IsPrefix(exits[i], <<1, 1>>))
      => /\ (Len(exits[i]) < 2 => failed[i] = 0)
         /\ (exits[i] = <<1>> => retry_timers[i] = 1 \/ started[i] = 2)
         /\ (exits[i] = <<1, 1>>
               => /\ failed[i] = 1 /\ tries[i] = 2
                  /\ started[i] = 2 /\ retry_timers[i] = 0)

\* C8: with retry_on_exit_code the empty set no retry timer is ever
\* scheduled and process is called once per enqueue, whatever max_tries and
\* the exit code are.
C8_EmptyRetrySetNeverRetries ==
  \A i \in Items :
    retry_on_exit_code = Some({})
      => /\ retries[i] = 0 /\ retry_timers[i] = 0
         /\ started[i] = start_items[i]

C8_Witness ==
  \E i \in Items :
    /\ retry_on_exit_code = Some({}) /\ max_tries = None
    /\ errors[i] = 1 /\ exits[i] # <<>>

\* C9: an unaccepted exit for which no retry is scheduled is reported by
\* fail_item: every unaccepted exit leads to a retry or to a failure.
C9_NoRetryMeansFailed ==
  [][\A i \in Items :
       Erred(i) =>
         \/ retries'[i] = retries[i] + 1 /\ failed'[i] = failed[i]
         \/ retries'[i] = retries[i] /\ failed'[i] = failed[i] + 1]_vars

\* C10: an item has at most one run attempt at a time, and process is
\* called again only when the previous attempt has its descriptor closed,
\* its handler removed and its exit code classified.
C10_OneRunAtATime ==
  /\ [](\A i \in Items :
          /\ Cardinality(RunsOf(i)) + retry_timers[i] <= 1
          /\ \A r \in RunsOf(i) :
               /\ r.n = started[i]
               /\ r.polls <= 1
               /\ ~(r.handler /\ r.polls > 0))
  /\ [][\A i \in Items :
          started'[i] # started[i]
            => RunsOf(i) = {} /\ Len(exits[i]) = started[i]]_vars

C10_Witness ==
  \E i \in Items, r \in runs :
    r.item = i /\ r.n >= 2 /\ r.polls = 1 /\ errors[i] >= 1


\* C11: a call of on_subprocess_stdout for a run attempt whose master file
\* is closed already is a no-op: it logs nothing, starts no second
\* resolution of the exit status, and every attempt is classified once.
C11_StaleCallIsNoOp ==
  \A i \in Items :
    /\ Len(exits[i]) <= started[i]
    /\ errors[i] + completed[i] <= started[i]
    /\ \A r \in RunsOf(i) : r.polls <= 1

\* the chunks of run attempt n that were passed to item.log_output
RECURSIVE LoggedChunks(_, _)
LoggedChunks(lg, n) ==
  IF lg = <<>> THEN <<>>
  ELSE LET e == lg[Len(lg)]
           before == LoggedChunks(SubSeq(lg, 1, Len(lg) - 1), n)
       IN IF e[1] = "output" /\ e[2] = n THEN before \o e[3] ELSE before

\* the number of item.log_output calls that carried output of attempt n
OutputCalls(lg, n) ==
  Cardinality({k \in 1..Len(lg) : lg[k][1] = "output" /\ lg[k][2] = n})

\* the chunks 1..w in the order the child wrote them
Written(w) == [k \in 1..w |-> k]

\* the hang-up branch acts on run attempt r in this step
HangsUp(r) ==
  /\ ~r.m_closed
  /\ \A x \in runs' : (x.item = r.item /\ x.n = r.n) => x.m_closed

\* C12: the hang-up actions are never taken while written data is unread:
\* pending data is read and logged first, in the same notification at the
\* latest, and a closed master has nothing left in its buffer.
C12_DrainBeforeHangUp ==
  /\ [](\A r \in runs : r.m_closed => r.buf = <<>> /\ ~r.handler)
  /\ [][\A r \in runs :
          HangsUp(r) =>
            LoggedChunks(log'[r.item], r.n)
              = LoggedChunks(log[r.item], r.n) \o r.buf]_vars

C12_Witness ==
  \E r \in runs :
    /\ r.m_closed /\ r.written >= 1
    /\ OutputCalls(log[r.item], r.n) = 1
    /\ log[r.item][Len(log[r.item])][1] = "output"

\* C13: per run attempt the data passed to item.log_output, concatenated in
\* the order of the calls, is what the child wrote: every chunk once, in
\* order, none lost.
C13_LogIsOutput ==
  /\ [](\A r \in runs :
          LoggedChunks(log[r.item], r.n) \o r.buf = Written(r.written))
  /\ [][\A r \in runs :
          HangsUp(r) => LoggedChunks(log'[r.item], r.n) = Written(r.written)]_vars

C13_Witness ==
  \E r \in runs :
    /\ r.m_closed /\ r.written >= 2
    /\ OutputCalls(log[r.item], r.n) >= 2
    /\ LoggedChunks(log[r.item], r.n) = <<1, 2>>

\* process was called for item i in this step and spawned nothing
SpawnFails(i) ==
  /\ started'[i] = started[i] + 1
  /\ ~\E x \in runs' : x.item = i /\ x.n = started'[i]

\* C14: a failure to spawn escapes process as an exception to its caller,
\* enqueue or the retry timer alike; it changes no tries, schedules no retry
\* timer, is not classified, and no later attempt is made for the item.
C14_SpawnFailureSurfaces ==
  /\ [](\A i \in Items :
          raised[i] # "none" => RunsOf(i) = {} /\ retry_timers[i] = 0)
  /\ [][\A i \in Items :
          SpawnFails(i) =>
            /\ raised'[i] = (IF start_items'[i] # start_items[i]
                               THEN "enqueue" ELSE "timeout")
            /\ tries'[i] = (IF start_items'[i] # start_items[i]
                              THEN 1 ELSE tries[i])
            /\ retries'[i] = retries[i] /\ retry_timers'[i] = 0
            /\ exits'[i] = exits[i] /\ errors'[i] = errors[i]
            /\ completed'[i] = completed[i] /\ failed'[i] = failed[i]]_vars

C14_Witness ==
  \E i \in Items :
    raised[i] = "timeout" /\ started[i] = Len(exits[i]) + 1 /\ errors[i] >= 1

\* C15 as claimed: no operation of the task lowers tries, enqueue of an
\* item that carries a tries value included.
C15_TriesNeverDecrease ==
  [][\A i \in Items : tries'[i] >= tries[i]]_vars

\* C15 as amended: tries is lowered by enqueue only, which sets it to 1;
\* from enqueue on it is at least 1 and process, classification and retry
\* never lower it.
C15_TriesLoweredByEnqueueOnly ==
  /\ [](\A i \in Items : start_items[i] >= 1 => tries[i] >= 1)
  /\ [][\A i \in Items :
          /\ tries'[i] < tries[i]
               => start_items'[i] = start_items[i] + 1 /\ tries'[i] = 1
          /\ start_items'[i] = start_items[i] => tries'[i] >= tries[i]]_vars

C15_Witness ==
  \E i \in Items : start_items[i] = 1 /\ tries[i] >= 3 /\ retries[i] >= 1

\* C16: after the hang-up, while the exit status is pending, wait_for_end
\* classifies nothing and keeps exactly one 250 ms poll scheduled; when the
\* child exits and the timers fire, the exit code is classified.
C16_PollUntilExit ==
  /\ [](\A r \in runs : r.m_closed => r.polls = 1)
  /\ [][\A r \in runs :
          (HangsUp(r) /\ r.exit_status = None) =>
            /\ \E x \in runs' : x.item = r.item /\ x.n = r.n /\ x.polls = 1
            /\ exits'[r.item] = exits[r.item]
            /\ tries'[r.item] = tries[r.item]
            /\ errors'[r.item] = errors[r.item]
            /\ completed'[r.item] = completed[r.item]
            /\ failed'[r.item] = failed[r.item]
            /\ retry_timers'[r.item] = retry_timers[r.item]]_vars
  /\ \A i \in Items, n \in 1..MaxStarts :
       (\E r \in runs : r.item = i /\ r.n = n /\ r.m_closed)
         ~> (Len(exits[i]) >= n)

C16_Witness ==
  \E r \in runs :
    r.m_closed /\ r.exit_status = None /\ r.polls = 1 /\ r.n >= 2

\* C17: an error of m.read() other than would-block does not leave
\* on_subprocess_stdout: it is logged and the call goes on to close the
\* master, remove the handler and resolve the exit status.
C17_ReadErrorContained ==
  \A i \in Items : raised[i] # "on_subprocess_stdout"

\* C18: with a finite max_tries the number of process starts of an item
\* never exceeds max_tries, whatever the exit codes are.
C18_StartsWithinMaxTries ==
  \A i \in Items : max_tries # None => started[i] <= max_tries[1]

C18_Witness ==
  \E i \in Items :
    /\ max_tries # None
    /\ started[i] >= 2 /\ errors[i] = started[i]
    /\ retry_timers[i] = 0 /\ RunsOf(i) = {}

\* C19: with a finite max_tries an enqueued item whose attempts have all
\* ended and that has no timer pending has reached its terminal outcome,
\* Completed or Failed.
C19_EndsInTerminalOutcome ==
  \A i \in Items :
    (/\ max_tries # None
     /\ start_items[i] = 1 /\ raised[i] = "none"
     /\ RunsOf(i) = {} /\ retry_timers[i] = 0)
      => completed[i] + failed[i] = 1

\* the retry decision after the kth exit of an item that runs alone: its
\* tries is k + 1 when the test is made
RetriedAfter(ex, k) ==
  /\ (max_tries = None \/ k + 1 < max_tries[1])
  /\ (retry_on_exit_code = None \/ ex[k] \in retry_on_exit_code[1])

\* tries, process starts, pending retry and outcome of item i are the ones
\* its own sequence of exit codes gives when the item runs alone
AsAlone(i) ==
  LET ex == exits[i]
      n == Len(ex)
  IN (start_items[i] = 1 /\ raised[i] = "none") =>
       /\ \A k \in 1..(n - 1) :
            ex[k] \notin accept_on_exit_code /\ RetriedAfter(ex, k)
       /\ IF n = 0
            THEN /\ tries[i] = 1 /\ started[i] = 1 /\ retry_timers[i] = 0
                 /\ completed[i] = 0 /\ failed[i] = 0
          ELSE IF ex[n] \in accept_on_exit_code
            THEN /\ tries[i] = n /\ started[i] = n /\ retry_timers[i] = 0
                 /\ completed[i] = 1 /\ failed[i] = 0
          ELSE IF RetriedAfter(ex, n)
            THEN /\ tries[i] = n + 1
                 /\ retry_timers[i] <= 1 /\ started[i] + retry_timers[i] = n + 1
                 /\ completed[i] = 0 /\ failed[i] = 0
          ELSE /\ tries[i] = n + 1 /\ started[i] = n /\ retry_timers[i] = 0
               /\ completed[i] = 0
               /\ failed[i] = (IF on_error THEN 1 ELSE 0)

\* C20: with two items on the same task and ioloop, under every
\* interleaving, the tries, the process starts and the outcome of each item
\* are those of the item running alone with the same exit codes.
C20_ItemsIndependent ==
  \A i \in Items : AsAlone(i)

C20_Witness ==
  \E ra \in runs, rb \in runs :
    /\ ra.item = "a" /\ ra.n = 2 /\ tries["a"] = 2
    /\ rb.item = "b" /\ rb.n = 1 /\ rb.polls = 1 /\ tries["b"] = 1

====
